---- MODULE Spec2Model ----
(***************************************************************************)
(* Model of OpenIndexTable (cacher-memtable/src/open_index_table.rs): an   *)
(* open-addressing table of u64 keys and values with linear probing,       *)
(* backward-shift deletion and doubling growth.  The table is single       *)
(* threaded; every public call is one atomic action.                       *)
(***************************************************************************)
EXTENDS Integers, Sequences, FiniteSets, TLC

VARIABLES
  data,        \* Vec<u64>: word 2i is the key of slot i, word 2i+1 its value
  data_cap,    \* length of data in words
  data_mask,   \* data_cap - 1
  cap,         \* load limit (maximum size before growth)
  cap_mask,    \* number of slots - 1
  size,        \* the occupancy counter
  free_value,  \* value kept for the reserved key 0
  free_set,    \* presence flag of the reserved key 0
  op,          \* history: the call that produced this state
  ret,         \* history: what that call returned
  latest       \* history: key -> value of the most recent insert of that key

vars == <<data, data_cap, data_mask, cap, cap_mask, size, free_value, free_set,
          op, ret, latest>>

(* ------------------------------ bounds --------------------------------- *)

\* Spec: inserts stop once the occupancy counter is MaxSize past the value
\* it had in the initial state.
MaxSize == 3
\* Spec: besides the fresh table, a run may start from the table left by
\* AgedRounds rounds of insert(1, 1); delete(1) on a fresh table.  delete
\* never lowers the counter, so that table is empty with size = AgedRounds.
AgedRounds == 26
\* SpecGrowth: the ascending run of distinct keys starts at 1..MaxFirstKey.
MaxFirstKey == 8

\* Keys and values the calls of Spec are drawn from.  With 32 slots, key 1
\* hashes to slot 31 (the last one, so a scan from it wraps around), keys 15
\* and 30 hash to slot 0 and key 5 to slot 1, so their probe chains overlap.
Keys == {0, 1, 5, 15, 30}
Values == {1, 2}

(* --------------------------- pure functions ---------------------------- *)

FREE_KEY == 0

RECURSIVE BitAnd(_, _)
\* the u64 operator & on naturals
BitAnd(a, b) ==
  IF a = 0 \/ b = 0 THEN 0
  ELSE (a % 2) * (b % 2) + 2 * BitAnd(a \div 2, b \div 2)

\* 0x9E3779B9 reduced modulo 2^24: bits 0..23 of k * 0x9E3779B9 depend on
\* these bits of the multiplier only.
Multiplier24 == 3635641

\* The low 8 bits of scramble(k); index() masks scramble(k) with cap_mask,
\* which stays below 2^8 in every run here (at most 256 slots).  The low 8
\* bits of hash * (hash >> 16) are determined by bits 0..7 and bits 16..23
\* of hash, hence by hash modulo 2^24.  This is exact for wrapping u64
\* arithmetic, and for k below 415 the u64 products do not overflow at all.
scramble(k) ==
  LET hash == (k * Multiplier24) % 16777216
  IN  ((hash % 256) * (hash \div 65536)) % 256

index(t, k) == BitAnd(scramble(k), t.cap_mask) * 2

next(t, i) == BitAnd(i + 2, t.data_mask)

\* OpenIndexTable::new()
initial_cap == 64

\* new() with the load limit set to the full slot count
new_fullLimit ==
  [ data       |-> [n \in 0 .. (initial_cap - 1) |-> 0],
    data_mask  |-> initial_cap - 1,
    data_cap   |-> initial_cap,
    cap        |-> initial_cap \div 2,
    cap_mask   |-> (initial_cap \div 2) - 1,
    free_value |-> 0,
    free_set   |-> FALSE,
    size       |-> 0 ]

new ==
  [ data       |-> [n \in 0 .. (initial_cap - 1) |-> 0],
    data_mask  |-> initial_cap - 1,
    data_cap   |-> initial_cap,
    cap        |-> ((initial_cap \div 2) \div 16) * 14,
    cap_mask   |-> (initial_cap \div 2) - 1,
    free_value |-> 0,
    free_set   |-> FALSE,
    size       |-> 0 ]

RECURSIVE get_loop(_, _, _)
get_loop(t, key, i) ==
  LET assigned_key == t.data[i]
  IN  IF assigned_key = FREE_KEY THEN <<0, FALSE>>
      ELSE IF assigned_key = key THEN <<t.data[i + 1], TRUE>>
      ELSE get_loop(t, key, next(t, i))

get(t, key) ==
  IF key = FREE_KEY THEN <<t.free_value, t.free_set>>
  ELSE get_loop(t, key, index(t, key))

RECURSIVE probe(_, _, _)
\* the probe loop shared by insert and delete: the first word index, from i
\* on, whose key is `key` or FREE_KEY
probe(t, key, i) ==
  LET assigned_key == t.data[i]
  IN  IF assigned_key = key \/ assigned_key = FREE_KEY THEN i
      ELSE probe(t, key, next(t, i))

RECURSIVE insert(_, _, _)
RECURSIVE expand(_)
RECURSIVE expand_loop(_, _, _)

\* insert that counts an overwrite as a newly occupied slot
insert_countsOverwrite(t, new_key, v) ==
  IF new_key = FREE_KEY
  THEN [t EXCEPT !.free_value = v, !.free_set = TRUE]
  ELSE LET i == probe(t, new_key, index(t, new_key))
           claimed == [t EXCEPT !.size = @ + 1, !.data[i] = new_key]
       IN  expand([claimed EXCEPT !.data[i + 1] = v])

\* insert that counts the reserved key as an occupied slot
insert_reservedCounts(t, new_key, v) ==
  IF new_key = FREE_KEY
  THEN expand([t EXCEPT !.free_value = v, !.free_set = TRUE, !.size = @ + 1])
  ELSE LET i == probe(t, new_key, index(t, new_key))
           claimed == IF t.data[i] = FREE_KEY
                      THEN [t EXCEPT !.size = @ + 1, !.data[i] = new_key]
                      ELSE t
       IN  expand([claimed EXCEPT !.data[i + 1] = v])

insert(t, new_key, v) ==
  IF new_key = FREE_KEY
  THEN [t EXCEPT !.free_value = v, !.free_set = TRUE]
  ELSE LET i == probe(t, new_key, index(t, new_key))
           claimed == IF t.data[i] = FREE_KEY
                      THEN [t EXCEPT !.size = @ + 1, !.data[i] = new_key]
                      ELSE t
       IN  expand([claimed EXCEPT !.data[i + 1] = v])

\* the while loop of expand: every slot of the old table, empty ones
\* included, is handed to insert on the new table.  (The test on nt1 is
\* always true; it makes TLC compute nt1 before the next iteration instead
\* of nesting the unevaluated calls.)
expand_loop(t, nt, n) ==
  IF n < t.data_cap
  THEN LET nt1 == insert(nt, t.data[n], t.data[n + 1])
       IN  IF nt1.data_cap > 0 THEN expand_loop(t, nt1, n + 2) ELSE nt1
  ELSE nt

\* expand that lets size pass the limit by one before growing
expand_lateGrowth(t) ==
  IF t.size <= t.cap + 1 THEN t
  ELSE LET dc == t.data_cap * 2
           nt == [ data       |-> [n \in 0 .. (dc - 1) |-> 0],
                   data_cap   |-> dc,
                   data_mask  |-> dc - 1,
                   cap_mask   |-> (dc \div 2) - 1,
                   cap        |-> t.cap * 2,
                   size       |-> t.size,
                   free_value |-> t.free_value,
                   free_set   |-> t.free_set ]
       IN  expand_loop(t, nt, 0)

\* expand that derives the new limit from the word count, not the slot count
expand_capFromWords(t) ==
  IF t.size <= t.cap THEN t
  ELSE LET dc == t.data_cap * 2
           nt == [ data       |-> [n \in 0 .. (dc - 1) |-> 0],
                   data_cap   |-> dc,
                   data_mask  |-> dc - 1,
                   cap_mask   |-> (dc \div 2) - 1,
                   cap        |-> (dc \div 16) * 14,
                   size       |-> t.size,
                   free_value |-> t.free_value,
                   free_set   |-> t.free_set ]
       IN  expand_loop(t, nt, 0)

expand(t) ==
  IF t.size <= t.cap THEN t
  ELSE LET dc == t.data_cap * 2
           nt == [ data       |-> [n \in 0 .. (dc - 1) |-> 0],
                   data_cap   |-> dc,
                   data_mask  |-> dc - 1,
                   cap_mask   |-> (dc \div 2) - 1,
                   cap        |-> t.cap * 2,
                   size       |-> t.size,
                   free_value |-> t.free_value,
                   free_set   |-> t.free_set ]
       IN  expand_loop(t, nt, 0)

RECURSIVE unshift_scan(_, _, _)
\* the inner loop of unshift: the word index at which it stops, either on an
\* empty slot or on a key to be moved back into `last`
unshift_scan(t, last, current) ==
  LET key  == t.data[current]
      slot == index(t, key)
  IN  IF key = FREE_KEY THEN current
      ELSE IF last < current /\ (last >= slot \/ slot > current) THEN current
      ELSE IF ~(last < current) /\ (last >= slot /\ slot > current) THEN current
      ELSE unshift_scan(t, last, next(t, current))

RECURSIVE unshift(_, _)
unshift(t, current) ==
  LET last == current
      stop == unshift_scan(t, last, next(t, current))
      key  == t.data[stop]
  IN  IF key = FREE_KEY
      THEN [t EXCEPT !.data[key] = FREE_KEY]
      ELSE unshift([t EXCEPT !.data[last] = key,
                             !.data[last + 1] = t.data[stop + 1]], stop)

\* delete that also resets the reserved value
delete_dropsValue(t, key) ==
  IF key = FREE_KEY
  THEN [table  |-> [t EXCEPT !.free_set = FALSE, !.free_value = 0],
        result |-> <<t.free_value, TRUE>>]
  ELSE LET i == probe(t, key, index(t, key))
       IN  IF t.data[i] = FREE_KEY
           THEN [table |-> t, result |-> <<0, FALSE>>]
           ELSE [table  |-> unshift([t EXCEPT !.data[i] = 0], i),
                 result |-> <<t.data[i + 1], TRUE>>]

\* delete that reports the reserved key's presence flag as `found`
delete_reportsPresence(t, key) ==
  IF key = FREE_KEY
  THEN [table  |-> [t EXCEPT !.free_set = FALSE],
        result |-> <<t.free_value, t.free_set>>]
  ELSE LET i == probe(t, key, index(t, key))
       IN  IF t.data[i] = FREE_KEY
           THEN [table |-> t, result |-> <<0, FALSE>>]
           ELSE [table  |-> unshift([t EXCEPT !.data[i] = 0], i),
                 result |-> <<t.data[i + 1], TRUE>>]

\* delete that runs the compaction on a miss as well
delete_missCompacts(t, key) ==
  IF key = FREE_KEY
  THEN [table |-> [t EXCEPT !.free_set = FALSE], result |-> <<t.free_value, TRUE>>]
  ELSE LET i == probe(t, key, index(t, key))
       IN  IF t.data[i] = FREE_KEY
           THEN [table |-> unshift(t, i), result |-> <<0, FALSE>>]
           ELSE [table  |-> unshift([t EXCEPT !.data[i] = 0], i),
                 result |-> <<t.data[i + 1], TRUE>>]

\* delete returns the table it leaves and the pair it returns
delete(t, key) ==
  IF key = FREE_KEY
  THEN [table |-> [t EXCEPT !.free_set = FALSE], result |-> <<t.free_value, TRUE>>]
  ELSE LET i == probe(t, key, index(t, key))
       IN  IF t.data[i] = FREE_KEY
           THEN [table |-> t, result |-> <<0, FALSE>>]
           ELSE [table  |-> unshift([t EXCEPT !.data[i] = 0], i),
                 result |-> <<t.data[i + 1], TRUE>>]

(* ------------------------------ state ---------------------------------- *)

\* the table as one value
self ==
  [ data |-> data, data_cap |-> data_cap, data_mask |-> data_mask,
    cap |-> cap, cap_mask |-> cap_mask, size |-> size,
    free_value |-> free_value, free_set |-> free_set ]

\* the table after the step
selfNext ==
  [ data |-> data', data_cap |-> data_cap', data_mask |-> data_mask',
    cap |-> cap', cap_mask |-> cap_mask', size |-> size',
    free_value |-> free_value', free_set |-> free_set' ]

Store(t) ==
  /\ data' = t.data
  /\ data_cap' = t.data_cap
  /\ data_mask' = t.data_mask
  /\ cap' = t.cap
  /\ cap_mask' = t.cap_mask
  /\ size' = t.size
  /\ free_value' = t.free_value
  /\ free_set' = t.free_set

Unit == <<>>
NoLatest == [k \in {} |-> 0]

RECURSIVE churn(_, _)
\* n rounds of insert(1, 1); delete(1)
churn(t, n) ==
  IF n = 0 THEN t
  ELSE LET t1 == delete(insert(t, 1, 1), 1).table
       IN  IF t1.data_cap > 0 THEN churn(t1, n - 1) ELSE t1

aged == churn(new, AgedRounds)

\* history field `over`: the value passed by the call just before, if that
\* call was an insert of the same key k, else 0
Over(k) == IF op.f = "insert" /\ op.key = k THEN op.v ELSE 0

\* a freshly constructed table
InitNew ==
  /\ data = new.data
  /\ data_cap = new.data_cap
  /\ data_mask = new.data_mask
  /\ cap = new.cap
  /\ cap_mask = new.cap_mask
  /\ size = new.size
  /\ free_value = new.free_value
  /\ free_set = new.free_set
  /\ op = [f |-> "new", key |-> 0, v |-> 0, over |-> 0]
  /\ ret = Unit
  /\ latest = NoLatest

\* the table after AgedRounds rounds of insert(1, 1); delete(1)
InitAged ==
  /\ data = aged.data
  /\ data_cap = aged.data_cap
  /\ data_mask = aged.data_mask
  /\ cap = aged.cap
  /\ cap_mask = aged.cap_mask
  /\ size = aged.size
  /\ free_value = aged.free_value
  /\ free_set = aged.free_set
  /\ op = [f |-> "delete", key |-> 1, v |-> 0, over |-> 1]
  /\ ret = <<1, TRUE>>
  /\ latest = (1 :> 1)

Init == InitNew \/ InitAged

\* the counter value the run started from
RunStart == IF size >= AgedRounds THEN AgedRounds ELSE 0

Insert(k, v) ==
  /\ size < RunStart + MaxSize
  /\ Store(insert(self, k, v))
  /\ op' = [f |-> "insert", key |-> k, v |-> v, over |-> Over(k)]
  /\ ret' = Unit
  /\ latest' = (k :> v) @@ latest

Get(k) ==
  /\ ret' = get(self, k)
  /\ op' = [f |-> "get", key |-> k, v |-> 0, over |-> 0]
  /\ UNCHANGED <<data, data_cap, data_mask, cap, cap_mask, size,
                 free_value, free_set, latest>>

Delete(k) ==
  /\ LET d == delete(self, k)
     IN  Store(d.table) /\ ret' = d.result
  /\ op' = [f |-> "delete", key |-> k, v |-> 0, over |-> Over(k)]
  /\ UNCHANGED latest

Next ==
  \/ \E k \in Keys, v \in Values : Insert(k, v)
  \/ \E k \in Keys : Get(k)
  \/ \E k \in Keys : Delete(k)

Spec == Init /\ [][Next]_vars

\* the same calls, on a freshly constructed table only
SpecFresh == InitNew /\ [][Next]_vars

(* ---- growth run: distinct ascending keys into a fresh table ----------- *)

Inserted == DOMAIN latest

MaxKey(S) == CHOOSE k \in S : \A j \in S : j <= k

\* the next insert of the run: the first key is any of 1..MaxFirstKey with
\* any value, every later key is the previous key + 1 with the same value;
\* the run ends after new.cap + 1 keys
GrowInsert(k, v) ==
  /\ Cardinality(Inserted) < new.cap + 1
  /\ IF Inserted = {}
     THEN k \in 1 .. MaxFirstKey
     ELSE k = MaxKey(Inserted) + 1 /\ v = latest[MaxKey(Inserted)]
  /\ Store(insert(self, k, v))
  /\ op' = [f |-> "insert", key |-> k, v |-> v, over |-> 0]
  /\ ret' = Unit
  /\ latest' = (k :> v) @@ latest

GrowGet(k) ==
  /\ k \in Inserted
  /\ Get(k)

NextGrowth ==
  \/ \E k \in 1 .. (MaxFirstKey + new.cap), v \in Values : GrowInsert(k, v)
  \/ \E k \in 1 .. (MaxFirstKey + new.cap) : GrowGet(k)

SpecGrowth == InitNew /\ [][NextGrowth]_vars

(* ------------------------------ claims --------------------------------- *)

\* the non-zero keys stored in the slots of table t
StoredKeys(t) == {t.data[n] : n \in {m \in DOMAIN t.data : m % 2 = 0}} \ {FREE_KEY}

\* C1: right after insert(k, v), for any key k (0 included) and any value v,
\* get(k) returns (v, true) -- also when the insert grew the table and when
\* deletes ran before it.
C1_RoundTrip ==
  op.f = "insert" => get(self, op.key) = <<op.v, TRUE>>

\* C2: right after delete(k) of a non-zero key k that was inserted before,
\* get(k) returns (0, false).
C2_DeleteThenAbsent ==
  (op.f = "delete" /\ op.key # FREE_KEY /\ op.key \in DOMAIN latest)
    => get(self, op.key) = <<0, FALSE>>

\* C3: delete(k) of a non-zero key k keeps every other non-zero key that get
\* reported present: get of it returns the same (value, true) afterwards.
C3_Survivorship ==
  [][ (op'.f = "delete" /\ op'.key # FREE_KEY)
        => \A k2 \in Keys \ {FREE_KEY, op'.key} :
             get(self, k2)[2] => get(selfNext, k2) = get(self, k2) ]_vars

\* C4: once new.cap + 1 distinct non-zero keys have been inserted into a
\* fresh table, the table has exactly twice its initial number of slots and
\* get returns, for every inserted key, the value it was inserted with.
C4_GrowthCorrectness ==
  Cardinality(DOMAIN latest) = new.cap + 1
    => /\ data_cap = 2 * new.data_cap
       /\ \A k \in DOMAIN latest : get(self, k) = <<latest[k], TRUE>>

\* C5: insert(k, v2) called right after insert(k, v1) leaves get(k) =
\* (v2, true) and does not change size.
C5_Overwrite ==
  [][ (op.f = "insert" /\ op'.f = "insert" /\ op'.key = op.key)
        => /\ get(selfNext, op'.key) = <<op'.v, TRUE>>
           /\ size' = size ]_vars

C5_Witness ==
  /\ op.f = "insert"
  /\ op.key # FREE_KEY
  /\ op.over \in Values
  /\ op.over # op.v
  /\ get(self, op.key) = <<op.v, TRUE>>

\* C6: insert(0, v) makes get(0) return (v, true); while get(0) returns
\* (v, true), get(0) changes nothing, and delete(0) returns (v, true) and
\* leaves get(0) = (v, false): the value stays, only the flag is cleared.
C6_ReservedKeyPath ==
  [][ /\ (op'.f = "insert" /\ op'.key = FREE_KEY)
           => get(selfNext, FREE_KEY) = <<op'.v, TRUE>>
      /\ (op'.f = "get" /\ op'.key = FREE_KEY)
           => (ret' = get(self, FREE_KEY) /\ selfNext = self)
      /\ \A v \in Values :
           (get(self, FREE_KEY) = <<v, TRUE>> /\ op'.f = "delete" /\ op'.key = FREE_KEY)
             => (ret' = <<v, TRUE>> /\ get(selfNext, FREE_KEY) = <<v, FALSE>>) ]_vars

C6_Witness ==
  /\ op.f = "delete"
  /\ op.key = FREE_KEY
  /\ op.over \in Values
  /\ ret = <<op.over, TRUE>>
  /\ get(self, FREE_KEY) = <<op.over, FALSE>>

\* C7: if get(k) returns (v, true) for a non-zero key k, delete(k) returns
\* (v, true), and v is the value of the most recent insert of k.
C7_DeleteReturnsStored ==
  [][ (op'.f = "delete" /\ op'.key # FREE_KEY /\ get(self, op'.key)[2])
        => /\ ret' = get(self, op'.key)
           /\ ret'[1] = latest[op'.key] ]_vars

\* C8 (as stated): new() yields 64 slots, i.e. 2 x 64 words of storage, a
\* load limit of 87.5% of 64, size 0, every slot empty, reserved key absent.
C8_NewHas64Slots ==
  op.f = "new"
    => /\ data_cap = 2 * 64
       /\ DOMAIN data = 0 .. (2 * 64 - 1)
       /\ 8 * cap = 7 * 64
       /\ size = 0
       /\ StoredKeys(self) = {}
       /\ ~free_set

\* C8 (amended): new() yields 32 slots, i.e. 64 = 2 x 32 words of storage, a
\* load limit of 28 = 87.5% of 32, size 0, every slot empty, reserved key
\* absent.
C8_NewHas32Slots ==
  op.f = "new"
    => /\ data_cap = 2 * 32
       /\ DOMAIN data = 0 .. (2 * 32 - 1)
       /\ data_mask = 2 * 32 - 1
       /\ cap_mask = 32 - 1
       /\ cap = 28
       /\ 8 * cap = 7 * 32
       /\ size = 0
       /\ StoredKeys(self) = {}
       /\ ~free_set

C8_Witness ==
  /\ op.f = "new"
  /\ size = 0
  /\ \A n \in DOMAIN data : data[n] = 0

\* C9: delete(k) of a non-zero key k for which get(k) returns (0, false)
\* returns (0, false) and leaves the whole table unchanged.
C9_AbsentDeleteIsMiss ==
  [][ (op'.f = "delete" /\ op'.key # FREE_KEY /\ get(self, op'.key) = <<0, FALSE>>)
        => (ret' = <<0, FALSE>> /\ selfNext = self) ]_vars

C9_Witness ==
  /\ op.f = "delete"
  /\ op.key # FREE_KEY
  /\ ret = <<0, FALSE>>
  /\ data[0] # FREE_KEY
  /\ Cardinality(StoredKeys(self)) >= 2

\* C10: delete(0) returns (free_value, true) whether or not the reserved key
\* is present, clears free_set and leaves free_value unchanged.
C10_ReservedDeleteUnconditional ==
  [][ (op'.f = "delete" /\ op'.key = FREE_KEY)
        => /\ ret' = <<free_value, TRUE>>
           /\ free_set' = FALSE
           /\ free_value' = free_value ]_vars

\* delete(0) on a table that never held the reserved key
C10_Witness ==
  /\ op.f = "delete"
  /\ op.key = FREE_KEY
  /\ ret = <<0, TRUE>>
  /\ free_value = 0
  /\ ~free_set
  /\ data_cap = initial_cap

\* the word indices at which the slots of table t start
Slots(t) == {n \in DOMAIN t.data : n % 2 = 0}

\* the slots of table t that hold a non-zero key
Occupied(t) == {n \in Slots(t) : t.data[n] # FREE_KEY}

\* C11: every slot holds the empty sentinel or a non-zero key that is in no
\* other slot.
C11_KeysUnique ==
  \A m \in Occupied(self) : \A n \in Occupied(self) :
    data[m] = data[n] => m = n

RECURSIVE ProbeReaches(_, _, _)
\* linear probing from word index i arrives at slot n without passing over
\* an empty slot first
ProbeReaches(t, i, n) ==
  IF i = n THEN TRUE
  ELSE IF t.data[i] = FREE_KEY THEN FALSE
  ELSE ProbeReaches(t, next(t, i), n)

\* C12: every non-zero key stored in a slot is reached by linear probing
\* from index(key), one slot at a time with wraparound, without passing over
\* an empty slot.
C12_ProbeReachable ==
  \A n \in Occupied(self) : ProbeReaches(self, index(self, data[n]), n)

\* C13: a delete(k) that finds the non-zero key k leaves exactly one
\* non-empty slot fewer than before.
C13_DeleteFreesOneSlot ==
  [][ (op'.f = "delete" /\ op'.key # FREE_KEY /\ ret'[2])
        => Cardinality(Occupied(selfNext)) = Cardinality(Occupied(self)) - 1 ]_vars

\* C14: size equals the number of slots that hold a non-zero key.
C14_SizeExact ==
  size = Cardinality(Occupied(self))

\* C15: an insert of a non-zero key, growth included, leaves free_value and
\* free_set unchanged, so get(0) returns the same before and after.
C15_InsertKeepsReserved ==
  [][ (op'.f = "insert" /\ op'.key # FREE_KEY)
        => /\ free_value' = free_value
           /\ free_set' = free_set
           /\ get(selfNext, FREE_KEY) = get(self, FREE_KEY) ]_vars

\* C16: after every completed insert, size is at most cap; growth has been
\* triggered whenever the write pushed size above the limit.
C16_LoadLimit ==
  op.f = "insert" => size <= cap

\* an insert that pushed size above the limit and grew the table
C16_Witness ==
  /\ op.f = "insert"
  /\ op.key # FREE_KEY
  /\ data_cap > initial_cap
  /\ size <= cap

C18_InsertKeepsOthers ==
  [][ op'.f = "insert"
        => \A k2 \in Keys \ {FREE_KEY, op'.key} :
             get(selfNext, k2) = get(self, k2) ]_vars

\* C19: insert(0, v), get(0) and delete(0) leave data, size and the capacity
\* fields unchanged, so get(k) is unaffected for every non-zero key k.
C19_ReservedLeavesSlots ==
  [][ (op'.f \in {"insert", "get", "delete"} /\ op'.key = FREE_KEY)
        => /\ data' = data
           /\ size' = size
           /\ data_cap' = data_cap
           /\ data_mask' = data_mask
           /\ cap' = cap
           /\ cap_mask' = cap_mask
           /\ \A k \in Keys \ {FREE_KEY} : get(selfNext, k) = get(self, k) ]_vars

\* insert(0, v) on a table whose counter stands at the limit
C19_Witness ==
  /\ op.f = "insert"
  /\ op.key = FREE_KEY
  /\ free_set
  /\ size = cap
  /\ Occupied(self) # {}

\* the number of slots of the table, as index() uses it
SlotCapacity == cap_mask + 1

\* C20: the slot capacity is a power of two, storage is twice as long as the
\* slot capacity, data_mask is the storage length - 1, cap_mask is the slot
\* capacity - 1 and cap is (slot capacity / 16) * 14.
C20_Geometry ==
  /\ \E e \in 0 .. 16 : SlotCapacity = 2 ^ e
  /\ DOMAIN data = 0 .. (2 * SlotCapacity - 1)
  /\ data_cap = 2 * SlotCapacity
  /\ data_mask = data_cap - 1
  /\ cap = (SlotCapacity \div 16) * 14
  /\ 8 * cap = 7 * SlotCapacity

\* a table that has grown
C20_Witness ==
  /\ op.f = "insert"
  /\ data_cap > initial_cap
  /\ Occupied(self) # {}

====
